---- MODULE Spec2Model ----
(***************************************************************************)
(* A model of py_uno.py: the two-player UNO engine of play_uno() and the   *)
(* helpers it calls.  Cards are the dictionaries of the source, written as *)
(* records [color, number, special]; player indices are 0-based as in the  *)
(* source, so the hand of player p is player_hands[p + 1].                 *)
(***************************************************************************)
EXTENDS Integers, Sequences, FiniteSets, TLC

\* ------------------------------------------------------------ constants

COLORS == <<"Red", "Green", "Blue", "Yellow">>

SKIP == "Skip"

DRAW_TWO == "DrawTwo"

WILD == "Wild"

WILD_DRAW_FOUR == "WildDrawFour"

\* the colored specials of a standard deck, Reverse included
COLOR_SPECIALS_STANDARD == <<SKIP, "Reverse", DRAW_TWO>>

COLOR_SPECIALS == <<SKIP, DRAW_TWO>>

WILD_SPECIALS == <<WILD, WILD_DRAW_FOUR>>

NUM_STARTING_CARDS == 7

\* deal_cards' default num_players
NUM_PLAYERS == 2

\* range(20) of create_deck's numbered cards
NUMBER_ROUNDS == 20

\* the two deck.append(dict(special_card)) of each colored special
COLOR_SPECIAL_COPIES == 2

\* range(4) of create_deck's wild cards
WILD_COPIES == 4

\* the sentinel handle_special_card returns when the draw pile runs out
TIE_SENTINEL == -1

\* the value find_card_in_hand returns for a name no card renders (None)
NONE == -1

\* ------------------------------------------------------------ helpers

Range(s) == {s[i] : i \in 1..Len(s)}

Card(c, n, s) == [color |-> c, number |-> n, special |-> s]

\* ------------------------------------------------------------ create_deck

NumberedCards ==
    [k \in 1..(NUMBER_ROUNDS * Len(COLORS)) |->
        Card(COLORS[((k - 1) % Len(COLORS)) + 1],
             ((k - 1) \div Len(COLORS)) % 10,
             "")]

ColoredSpecialCards ==
    [k \in 1..(Len(COLOR_SPECIALS) * Len(COLORS) * COLOR_SPECIAL_COPIES) |->
        Card(COLORS[(((k - 1) \div COLOR_SPECIAL_COPIES) % Len(COLORS)) + 1],
             -1,
             COLOR_SPECIALS[((k - 1) \div (Len(COLORS) * COLOR_SPECIAL_COPIES)) + 1])]

WildCards ==
    [k \in 1..(Len(WILD_SPECIALS) * WILD_COPIES) |->
        Card("", -1, WILD_SPECIALS[((k - 1) \div WILD_COPIES) + 1])]

create_deck == NumberedCards \o ColoredSpecialCards \o WildCards

\* ------------------------------------------------------------ shuffle

(* random.seed(the_seed); random.shuffle(the_deck): the order CPython's       *)
(* generator gives the 104 positions of create_deck for each seed string     *)
(* considered (entry i is the 1-based position in create_deck of the card    *)
(* that ends at position i of the shuffled deck).                            *)
ShuffleOrder(the_seed) ==
    CASE the_seed = "690" ->
        <<55, 79, 11, 101, 37, 94, 30, 92, 51, 36, 57, 20, 39, 7, 83, 1, 35,
          2, 71, 19, 8, 26, 31, 95, 91, 99, 27, 9, 52, 33, 4, 6, 34, 54, 75,
          93, 67, 87, 14, 38, 24, 32, 49, 78, 65, 50, 45, 100, 56, 22, 89,
          60, 66, 12, 18, 10, 98, 70, 69, 53, 23, 74, 62, 68, 88, 72, 82,
          102, 97, 103, 25, 85, 3, 61, 73, 48, 15, 44, 104, 59, 81, 90, 40,
          58, 17, 64, 41, 43, 16, 63, 21, 5, 13, 86, 96, 76, 28, 80, 84, 29,
          46, 77, 47, 42>>
      [] the_seed = "50" ->
        <<36, 88, 31, 98, 4, 79, 82, 14, 59, 12, 35, 57, 46, 80, 45, 10, 37,
          62, 48, 58, 22, 15, 104, 67, 11, 53, 97, 27, 65, 29, 52, 102, 49,
          85, 86, 17, 50, 56, 47, 63, 64, 1, 51, 19, 81, 89, 100, 6, 28, 74,
          25, 16, 77, 75, 66, 96, 18, 78, 20, 41, 91, 33, 43, 93, 7, 68, 60,
          24, 90, 8, 83, 55, 54, 40, 70, 26, 9, 5, 42, 84, 103, 32, 44, 92,
          38, 61, 95, 69, 39, 3, 99, 21, 76, 87, 72, 13, 23, 30, 2, 101, 73,
          71, 34, 94>>

\* the seed strings typed at the prompt
Seeds == {"690", "50"}

shuffle(deck, the_seed) ==
    [i \in 1..Len(ShuffleOrder(the_seed)) |-> deck[ShuffleOrder(the_seed)[i]]]

\* ------------------------------------------------------------ deal_cards

Min(a, b) == IF a < b THEN a ELSE b

(* Round r gives one card to each player in turn while the deck lasts, so    *)
(* the j-th card popped (from 0) goes to player j % num_players.             *)
deal_cards(deck, num_players, cards_per_player) ==
    LET dealt == Min(num_players * cards_per_player, Len(deck))
        count(p) == (dealt - p + num_players - 1) \div num_players
    IN  [deck |-> SubSeq(deck, dealt + 1, Len(deck)),
         player_hands |->
            [p \in 1..num_players |->
                [r \in 1..count(p - 1) |-> deck[(r - 1) * num_players + p]]]]

\* ------------------------------------------------------------ card_to_string

\* a rendering that drops the color of the colored special cards
card_to_string_no_color(card) ==
    IF card.special # "" THEN card.special
    ELSE card.color \o ToString(card.number)

card_to_string(card) ==
    IF card.special # ""
    THEN IF card.color # ""
         THEN card.color \o card.special
         ELSE card.special
    ELSE card.color \o ToString(card.number)

RECURSIVE JoinFrom(_, _)
JoinFrom(strings, i) ==
    IF i > Len(strings) THEN ""
    ELSE IF i = Len(strings) THEN strings[i]
    ELSE strings[i] \o " " \o JoinFrom(strings, i + 1)

\* the line display_hand prints
display_hand(hand) ==
    JoinFrom([i \in 1..Len(hand) |-> card_to_string(hand[i])], 1)

\* ------------------------------------------------------------ is_valid_play

\* a number match that forgets the -1 of the special cards
is_valid_play_any_number(card, top, the_color) ==
    \/ card.special \in Range(WILD_SPECIALS)
    \/ card.color = the_color
    \/ card.number = top.number
    \/ card.special # "" /\ card.special = top.special

is_valid_play(card, top_card, the_color) ==
    IF card.special \in Range(WILD_SPECIALS) THEN TRUE
    ELSE IF card.color = the_color THEN TRUE
    ELSE IF card.number = top_card.number /\ card.number # -1 THEN TRUE
    ELSE IF card.special # "" /\ card.special = top_card.special THEN TRUE
    ELSE FALSE

\* ------------------------------------------------------------ find_card_in_hand

RECURSIVE FindFrom(_, _, _)
FindFrom(hand, card_name, i) ==
    IF i >= Len(hand) THEN NONE
    ELSE IF card_to_string(hand[i + 1]) = card_name THEN i
    ELSE FindFrom(hand, card_name, i + 1)

\* the index, counted from 0, of the first card rendered as card_name, or NONE
find_card_in_hand(hand, card_name) == FindFrom(hand, card_name, 0)

\* hand[card_index], with card_index counted from 0
At(cards, card_index) == cards[card_index + 1]

\* ------------------------------------------------------------ handle_special_card

\* a pop that leaves the card in the hand
RemoveNothing(s, i) == s

Remove(s, i) == SubSeq(s, 1, i - 1) \o SubSeq(s, i + 1, Len(s))

\* a forced draw that never reports the draw pile running out
ForcedDrawNoTie(count, deck, hand) ==
    [deck |-> SubSeq(deck, Min(count, Len(deck)) + 1, Len(deck)),
     hand |-> hand \o SubSeq(deck, 1, Min(count, Len(deck))),
     short |-> FALSE]

\* a forced draw that reports a tie whenever it leaves the draw pile empty
ForcedDrawTieOnEmpty(count, deck, hand) ==
    [deck |-> SubSeq(deck, Min(count, Len(deck)) + 1, Len(deck)),
     hand |-> hand \o SubSeq(deck, 1, Min(count, Len(deck))),
     short |-> Len(deck) <= count]

(* for _ in range(count): if deck: hand.append(deck.pop(0)) else: return -1  *)
RECURSIVE ForcedDraw(_, _, _)
ForcedDraw(count, deck, hand) ==
    IF count = 0 THEN [deck |-> deck, hand |-> hand, short |-> FALSE]
    ELSE IF deck # <<>>
         THEN ForcedDraw(count - 1, Tail(deck), Append(hand, Head(deck)))
         ELSE [deck |-> deck, hand |-> hand, short |-> TRUE]

\* a resolver whose DrawTwo and WildDrawFour do not skip the player who drew
handle_special_card_no_skip(card, deck, hands, player) ==
    LET next_player == (player + 1) % Len(hands)
        skip_player == (player + 2) % Len(hands)
        drawn(count) == ForcedDraw(count, deck, hands[next_player + 1])
        after(d) == [next_player |-> IF d.short THEN TIE_SENTINEL ELSE next_player,
                     deck |-> d.deck,
                     player_hands |-> [hands EXCEPT ![next_player + 1] = d.hand]]
        same(np) == [next_player |-> np, deck |-> deck, player_hands |-> hands]
    IN  IF card.special = SKIP THEN same(skip_player)
        ELSE IF card.special = DRAW_TWO THEN after(drawn(2))
        ELSE IF card.special = WILD_DRAW_FOUR THEN after(drawn(4))
        ELSE same(next_player)

(* The result is the returned next player (TIE_SENTINEL for a tie) with the  *)
(* deck and the hands as the call leaves them.                               *)
handle_special_card(card, deck, hands, player) ==
    LET next_player == (player + 1) % Len(hands)
        skip_player == (player + 2) % Len(hands)
        drawn(count) == ForcedDraw(count, deck, hands[next_player + 1])
        after(d) == [next_player |-> IF d.short THEN TIE_SENTINEL ELSE skip_player,
                     deck |-> d.deck,
                     player_hands |-> [hands EXCEPT ![next_player + 1] = d.hand]]
        same(np) == [next_player |-> np, deck |-> deck, player_hands |-> hands]
    IN  IF card.special = SKIP THEN same(skip_player)
        ELSE IF card.special = DRAW_TWO THEN after(drawn(2))
        ELSE IF card.special = WILD_DRAW_FOUR THEN after(drawn(4))
        ELSE IF card.special = WILD THEN same(next_player)
        ELSE same(next_player)

\* ------------------------------------------------------------ select_valid_color

\* a color test that takes any entry
ValidColorAny(entry) == TRUE

\* if color_choice in COLORS
ValidColor(entry) == entry \in Range(COLORS)

\* ------------------------------------------------------------ state of play_uno

VARIABLES
    the_deck,        \* the draw pile, front first
    player_hands,    \* one sequence of cards per player
    discard_pile,    \* the played cards, top last
    current_color,   \* the active color, "" before the first play
    current_player,  \* 0-based index of the player asked next
    has_drawn,       \* the current player drew this turn
    game_over,       \* the loop has ended
    action,          \* the verb of the last input, lower-cased
    valid_action,    \* valid_action at the end of the last iteration
    output,          \* the lines printed by the last iteration
    prompt,          \* the input the program waits at: "action" or "color"
    color_choice,    \* select_valid_color's color_choice, "" outside the call
    probe            \* inputs and result of a helper applied on its own

game == <<the_deck, player_hands, discard_pile, current_color,
          current_player, has_drawn, game_over>>

vars == <<the_deck, player_hands, discard_pile, current_color,
          current_player, has_drawn, game_over, action, valid_action,
          output, prompt, color_choice, probe>>

\* where the program waits and what select_valid_color holds
waiting == <<prompt, color_choice>>

NoProbe == [fn |-> "none"]

\* ------------------------------------------------------------ bounds

\* all inputs are explored once the draw pile holds at most FreeDeck cards
FreeDeck == 2

\* before that, a player holding at most KeepCards cards draws and passes
KeepCards == 2

(* all inputs are explored too while no card was played yet and at most      *)
(* FreeOpening cards were drawn: the first turn of player 0 and, after a     *)
(* draw and a pass, the first turn of player 1                               *)
FreeOpening == 1

\* ------------------------------------------------------------ the players' input

\* str.lower() on one character (ASCII letters)
LowerChar(c) ==
    CASE c = "A" -> "a" [] c = "B" -> "b" [] c = "C" -> "c" [] c = "D" -> "d"
      [] c = "E" -> "e" [] c = "F" -> "f" [] c = "G" -> "g" [] c = "H" -> "h"
      [] c = "I" -> "i" [] c = "J" -> "j" [] c = "K" -> "k" [] c = "L" -> "l"
      [] c = "M" -> "m" [] c = "N" -> "n" [] c = "O" -> "o" [] c = "P" -> "p"
      [] c = "Q" -> "q" [] c = "R" -> "r" [] c = "S" -> "s" [] c = "T" -> "t"
      [] c = "U" -> "u" [] c = "V" -> "v" [] c = "W" -> "w" [] c = "X" -> "x"
      [] c = "Y" -> "y" [] c = "Z" -> "z" [] OTHER -> c

\* action_parts[0].lower()
RECURSIVE Lower(_)
Lower(verb) ==
    IF verb = "" THEN ""
    ELSE LowerChar(SubSeq(verb, 1, 1)) \o Lower(SubSeq(verb, 2, Len(verb)))

\* the position of the first space of the line from position i on, or 0
RECURSIVE FirstSpace(_, _)
FirstSpace(user_input, i) ==
    IF i > Len(user_input) THEN 0
    ELSE IF SubSeq(user_input, i, i) = " " THEN i
    ELSE FirstSpace(user_input, i + 1)

\* user_input.split(' ', 1): the line, or what is before and after its first space
Split(user_input) ==
    LET k == FirstSpace(user_input, 1)
    IN  IF k = 0 THEN <<user_input>>
        ELSE <<SubSeq(user_input, 1, k - 1),
               SubSeq(user_input, k + 1, Len(user_input))>>

hand == player_hands[current_player + 1]

\* the names of the cards the players hold
HeldNames ==
    UNION {{card_to_string(c) : c \in Range(player_hands[p])} :
              p \in 1..Len(player_hands)}

\* a name no card renders, and the name of a wild card once played
OtherNames == {"Purple7", "RedWild"}

\* the lines typed at the action prompt
InputLines ==
    {"play", "PLAY", "Play", "draw", "Draw", "DRAW", "pass", "Pass", "PASS",
     "quit", "Quit", "", "play ", " draw", "draw Red7", "pass Red7",
     "quit Red7"}
    \cup {v \o " " \o n : v \in {"play", "PLAY", "Play"},
                           n \in HeldNames \cup OtherNames}

\* action_parts for each line
Inputs == {Split(user_input) : user_input \in InputLines}

\* the entries typed at the color prompt
ColorInputs == Range(COLORS) \cup {"Purple", "red"}

top_card == discard_pile[Len(discard_pile)]

\* a play accepted without asking is_valid_play
PlayableAlways(card) == TRUE

\* a first play held to the color rule although there is no top card
PlayableByColor(card) ==
    card.special \in Range(WILD_SPECIALS) \/ card.color = current_color

\* if not discard_pile: anything goes; else is_valid_play decides
Playable(card) ==
    IF discard_pile = <<>> THEN TRUE
    ELSE is_valid_play(card, top_card, current_color)

DeckAfterDeal ==
    Len(create_deck) - Min(NUM_PLAYERS * NUM_STARTING_CARDS, Len(create_deck))

(* The players follow the scripted line of play from the opening of the     *)
(* game until the draw pile is down to FreeDeck cards; the actions of the    *)
(* opening (up to the first play, within FreeOpening draws) and the inputs   *)
(* of the end of the game are free.                                          *)
Scripted ==
    /\ Len(the_deck) > FreeDeck
    /\ ~(/\ Len(the_deck) >= DeckAfterDeal - FreeOpening
         /\ discard_pile = <<>>)

(* The scripted line: with more than KeepCards cards in hand, play the first *)
(* card of the hand that can be played; otherwise draw, then pass.           *)
ScriptedInput ==
    LET playable == {i \in 1..Len(hand) : Playable(hand[i])}
        first == CHOOSE i \in playable : \A j \in playable : i <= j
    IN  IF Len(hand) > KeepCards /\ playable # {}
        THEN <<"play", card_to_string(hand[first])>>
        ELSE IF has_drawn THEN <<"pass">> ELSE <<"draw">>

ScriptedColor == COLORS[1]

\* the inputs the players give: the scripted line, or anything
Offered(parts) == Scripted => parts = ScriptedInput

\* the color the players enter: the scripted one, or anything in the endgame
OfferedColor(entry) == Len(the_deck) > FreeDeck => entry = ScriptedColor

\* ------------------------------------------------------------ messages

TopCardLine == "The top card is:  "

WinLine(player) ==
    "Congratulations Player " \o ToString(player + 1) \o "! You Won!"

TieLine == "Draw pile is empty! Game ends in a tie."

NoMatchLine == "That card didn't match in number or color."

NotInHandLine == "That card is not in your hand."

DrawOnceLine == "You can only draw once per turn."

MustDrawLine == "You must draw a card before passing."

InvalidLine == "Invalid action. Use 'play [CardName]', 'draw', or 'pass'."

\* ------------------------------------------------------------ Init

Init ==
    \E the_seed \in Seeds :
        LET dealt == deal_cards(shuffle(create_deck, the_seed),
                                NUM_PLAYERS, NUM_STARTING_CARDS)
        IN  /\ the_deck = dealt.deck
            /\ player_hands = dealt.player_hands
            /\ discard_pile = <<>>
            /\ current_color = ""
            /\ current_player = 0
            /\ has_drawn = FALSE
            /\ game_over = FALSE
            /\ action = ""
            /\ valid_action = FALSE
            /\ output = <<"__", display_hand(dealt.player_hands[1])>>
            /\ prompt = "action"
            /\ color_choice = ""
            /\ probe = NoProbe

\* ------------------------------------------------------------ the loop's tests

\* if action == 'play' and len(action_parts) > 1
IsPlay(parts) == Lower(parts[1]) = "play" /\ Len(parts) > 1

IsDraw(parts) == ~IsPlay(parts) /\ Lower(parts[1]) = "draw"

IsPass(parts) == ~IsPlay(parts) /\ ~IsDraw(parts) /\ Lower(parts[1]) = "pass"

\* a draw that forgets the has_drawn flag
DrawAlways == TRUE

\* if not has_drawn
DrawAllowed == ~has_drawn

\* a pass that needs no draw
PassAlways == TRUE

\* if has_drawn
PassAllowed == has_drawn

\* a win check that never finds the hand empty
HandNeverEmptied(hands, player) == FALSE

\* a win check that fires with one card left
HandNearlyEmptied(hands, player) == Len(hands[player + 1]) <= 1

\* if len(player_hands[current_player]) == 0
HandEmptied(hands, player) == Len(hands[player + 1]) = 0

\* a turn that stays with the player who acted
NextPlayerStays(player, hands) == player

\* current_player = (current_player + 1) % len(player_hands)
NextPlayer(player, hands) == (player + 1) % Len(hands)

\* ------------------------------------------------------------ play

\* a wild card that leaves the current color as it was
PlayedColorUnlessWild(played_card, chosen) ==
    IF played_card.special \in Range(WILD_SPECIALS) THEN current_color
    ELSE played_card.color

\* current_color after a play: the chosen color for a wild card, else the card's
PlayedColor(played_card, chosen) ==
    IF played_card.special \in Range(WILD_SPECIALS) THEN chosen
    ELSE played_card.color

(* The outcome of an accepted play (if valid_action: if action == 'play'):   *)
(* the top card is shown, then a win, or the special card's effect, or the  *)
(* next player's turn.  hands1 are the hands once the card has left.         *)
PlayOutcome(played_card, hands1) ==
    LET top_line == TopCardLine \o card_to_string(played_card)
        effect == handle_special_card(played_card, the_deck,
                                      hands1, current_player)
    IN  /\ action' = "play"
        /\ valid_action' = TRUE
        /\ IF HandEmptied(hands1, current_player)
           THEN /\ player_hands' = hands1
                /\ game_over' = TRUE
                /\ output' = <<top_line, WinLine(current_player)>>
                /\ UNCHANGED <<the_deck, current_player, has_drawn>>
           ELSE IF played_card.special # ""
           THEN /\ the_deck' = effect.deck
                /\ player_hands' = effect.player_hands
                /\ has_drawn' = FALSE
                /\ IF effect.next_player = TIE_SENTINEL
                   THEN /\ game_over' = TRUE
                        /\ current_player' = current_player
                        /\ output' = <<top_line, TieLine>>
                   ELSE /\ game_over' = game_over
                        /\ current_player' = effect.next_player
                        /\ output' =
                             <<top_line,
                               display_hand(effect.player_hands[
                                   effect.next_player + 1])>>
           ELSE /\ player_hands' = hands1
                /\ current_player' =
                     NextPlayer(current_player, player_hands)
                /\ has_drawn' = FALSE
                /\ output' =
                     <<top_line,
                       display_hand(hands1[
                           NextPlayer(current_player, player_hands) + 1])>>
                /\ UNCHANGED <<the_deck, game_over>>

(* An accepted play: the card named is in the hand and, unless the discard   *)
(* pile is empty, is_valid_play accepts it.  The card moves to the discard   *)
(* pile.  A wild card then waits there, without a color, for the color       *)
(* prompt of select_valid_color; any other card sets the current color and   *)
(* the outcome is processed.                                                 *)
PlayCard(parts) ==
    /\ ~game_over
    /\ prompt = "action"
    /\ IsPlay(parts)
    /\ find_card_in_hand(hand, parts[2]) # NONE
    /\ Playable(At(hand, find_card_in_hand(hand, parts[2])))
    /\ LET card_index == find_card_in_hand(hand, parts[2])
           played_card == At(hand, card_index)
           hands1 == [player_hands EXCEPT
                        ![current_player + 1] = Remove(hand, card_index + 1)]
       IN  /\ discard_pile' = Append(discard_pile, played_card)
           /\ probe' = probe
           /\ IF played_card.special \in Range(WILD_SPECIALS)
              THEN /\ prompt' = "color"
                   /\ color_choice' = ""
                   /\ player_hands' = hands1
                   /\ action' = "play"
                   /\ valid_action' = FALSE
                   /\ output' = <<>>
                   /\ UNCHANGED <<the_deck, current_color, current_player,
                                  has_drawn, game_over>>
              ELSE /\ current_color' = PlayedColor(played_card, "")
                   /\ PlayOutcome(played_card, hands1)
                   /\ UNCHANGED waiting

(* One entry at the color prompt.  An entry that is no color is kept in      *)
(* color_choice and the prompt is repeated; a color returns from             *)
(* select_valid_color: it becomes the current color and the color of the     *)
(* wild card on top of the discard pile, and the outcome is processed.       *)
select_valid_color(entry) ==
    /\ ~game_over
    /\ prompt = "color"
    /\ probe' = probe
    /\ IF ValidColor(entry)
       THEN LET played_card == [top_card EXCEPT !.color = entry]
            IN  /\ prompt' = "action"
                /\ color_choice' = ""
                /\ current_color' = PlayedColor(played_card, entry)
                /\ discard_pile' =
                     [discard_pile EXCEPT ![Len(discard_pile)] = played_card]
                /\ PlayOutcome(played_card, player_hands)
       ELSE /\ color_choice' = entry
            /\ UNCHANGED <<game, action, valid_action, output, prompt>>

\* a play of a name that is not in the hand, or of a card that does not match
PlayRejected(parts) ==
    /\ ~game_over
    /\ prompt = "action"
    /\ IsPlay(parts)
    /\ LET card_index == find_card_in_hand(hand, parts[2])
       IN  IF card_index = NONE
           THEN output' = <<NotInHandLine>>
           ELSE /\ ~Playable(At(hand, card_index))
                /\ output' = <<NoMatchLine>>
    /\ action' = "play"
    /\ valid_action' = FALSE
    /\ UNCHANGED <<game, probe, waiting>>

\* ------------------------------------------------------------ draw

\* a draw that takes the last card of the draw pile, not the first
DrawCardFromBack(parts) ==
    /\ ~game_over
    /\ prompt = "action"
    /\ IsDraw(parts)
    /\ DrawAllowed
    /\ the_deck # <<>>
    /\ the_deck' = SubSeq(the_deck, 1, Len(the_deck) - 1)
    /\ player_hands' = [player_hands EXCEPT
                          ![current_player + 1] =
                              Append(hand, the_deck[Len(the_deck)])]
    /\ has_drawn' = TRUE
    /\ output' = <<display_hand(Append(hand, the_deck[Len(the_deck)]))>>
    /\ action' = "draw"
    /\ valid_action' = TRUE
    /\ UNCHANGED <<discard_pile, current_color, current_player, game_over, probe, waiting>>

DrawCard(parts) ==
    /\ ~game_over
    /\ prompt = "action"
    /\ IsDraw(parts)
    /\ DrawAllowed
    /\ the_deck # <<>>
    /\ the_deck' = Tail(the_deck)
    /\ player_hands' = [player_hands EXCEPT
                          ![current_player + 1] = Append(hand, Head(the_deck))]
    /\ has_drawn' = TRUE
    /\ output' = <<display_hand(Append(hand, Head(the_deck)))>>
    /\ action' = "draw"
    /\ valid_action' = TRUE
    /\ UNCHANGED <<discard_pile, current_color, current_player, game_over, probe, waiting>>

\* a draw from the empty draw pile that is taken as made and ends nothing
DrawEmptyGoesOn(parts) ==
    /\ ~game_over
    /\ prompt = "action"
    /\ IsDraw(parts)
    /\ DrawAllowed
    /\ the_deck = <<>>
    /\ has_drawn' = TRUE
    /\ output' = <<display_hand(hand)>>
    /\ action' = "draw"
    /\ valid_action' = TRUE
    /\ UNCHANGED <<the_deck, player_hands, discard_pile, current_color,
                   current_player, game_over, probe, waiting>>

\* a draw from the empty draw pile ends the game in a tie
DrawEmpty(parts) ==
    /\ ~game_over
    /\ prompt = "action"
    /\ IsDraw(parts)
    /\ DrawAllowed
    /\ the_deck = <<>>
    /\ game_over' = TRUE
    /\ output' = <<TieLine>>
    /\ action' = "draw"
    /\ valid_action' = FALSE
    /\ UNCHANGED <<the_deck, player_hands, discard_pile, current_color,
                   current_player, has_drawn, probe, waiting>>

DrawRejected(parts) ==
    /\ ~game_over
    /\ prompt = "action"
    /\ IsDraw(parts)
    /\ ~DrawAllowed
    /\ output' = <<DrawOnceLine>>
    /\ action' = "draw"
    /\ valid_action' = FALSE
    /\ UNCHANGED <<game, probe, waiting>>

\* ------------------------------------------------------------ pass

\* a pass that shows the next hand without the top card
PassTurnNoTopCard(parts) ==
    /\ ~game_over
    /\ prompt = "action"
    /\ IsPass(parts)
    /\ PassAllowed
    /\ current_player' = NextPlayer(current_player, player_hands)
    /\ has_drawn' = FALSE
    /\ output' = <<display_hand(player_hands[
                      NextPlayer(current_player, player_hands) + 1])>>
    /\ action' = "pass"
    /\ valid_action' = TRUE
    /\ UNCHANGED <<the_deck, player_hands, discard_pile, current_color,
                   game_over, probe, waiting>>

PassTurn(parts) ==
    /\ ~game_over
    /\ prompt = "action"
    /\ IsPass(parts)
    /\ PassAllowed
    /\ current_player' = NextPlayer(current_player, player_hands)
    /\ has_drawn' = FALSE
    /\ output' =
         (IF discard_pile # <<>>
          THEN <<TopCardLine \o card_to_string(top_card)>>
          ELSE <<>>)
         \o <<display_hand(player_hands[
                  NextPlayer(current_player, player_hands) + 1])>>
    /\ action' = "pass"
    /\ valid_action' = TRUE
    /\ UNCHANGED <<the_deck, player_hands, discard_pile, current_color,
                   game_over, probe, waiting>>

PassRejected(parts) ==
    /\ ~game_over
    /\ prompt = "action"
    /\ IsPass(parts)
    /\ ~PassAllowed
    /\ output' = <<MustDrawLine>>
    /\ action' = "pass"
    /\ valid_action' = FALSE
    /\ UNCHANGED <<game, probe, waiting>>

\* ------------------------------------------------------------ anything else

\* an unknown verb, or play with no card name
InvalidAction(parts) ==
    /\ ~game_over
    /\ prompt = "action"
    /\ ~IsPlay(parts) /\ ~IsDraw(parts) /\ ~IsPass(parts)
    /\ output' = <<InvalidLine>>
    /\ action' = Lower(parts[1])
    /\ valid_action' = FALSE
    /\ UNCHANGED <<game, probe, waiting>>

\* ------------------------------------------------------------ the game

(* One iteration of the loop for each input the players may give.           *)
Play == \E parts \in Inputs : Offered(parts) /\ PlayCard(parts)

Color ==
    \E entry \in ColorInputs :
        OfferedColor(entry) /\ ValidColor(entry) /\ select_valid_color(entry)

RefusedColor ==
    \E entry \in ColorInputs :
        OfferedColor(entry) /\ ~ValidColor(entry) /\ select_valid_color(entry)

RefusedPlay == \E parts \in Inputs : Offered(parts) /\ PlayRejected(parts)

Draw == \E parts \in Inputs : Offered(parts) /\ DrawCard(parts)

DrawTie == \E parts \in Inputs : Offered(parts) /\ DrawEmpty(parts)

RefusedDraw == \E parts \in Inputs : Offered(parts) /\ DrawRejected(parts)

Pass == \E parts \in Inputs : Offered(parts) /\ PassTurn(parts)

RefusedPass == \E parts \in Inputs : Offered(parts) /\ PassRejected(parts)

Invalid == \E parts \in Inputs : Offered(parts) /\ InvalidAction(parts)

Next ==
    \/ Play
    \/ Color
    \/ RefusedColor
    \/ RefusedPlay
    \/ Draw
    \/ DrawTie
    \/ RefusedDraw
    \/ Pass
    \/ RefusedPass
    \/ Invalid

Spec == Init /\ [][Next]_vars

\* ------------------------------------------------------------ properties

\* the card on top of the discard pile after the step
played == discard_pile'[Len(discard_pile')]

\* the step processed an accepted play
PlayAccepted == action' = "play" /\ valid_action'

\* the step took a card of the hand to the discard pile
CardPlayed ==
    /\ prompt = "action"
    /\ action' = "play"
    /\ Len(discard_pile') = Len(discard_pile) + 1

\* the cards left to the current player once the card played is gone
LeftInHand == IF prompt = "color" THEN Len(hand) ELSE Len(hand) - 1

\* the player after the current one
following == (current_player + 1) % Len(player_hands)

\* the cards a special card makes the following player draw
ForcedCount(special) ==
    IF special = DRAW_TWO THEN 2
    ELSE IF special = WILD_DRAW_FOUR THEN 4
    ELSE 0

\* is_valid_play's rule as section 4.3 states it, or the free first play
LegalNow(card) ==
    IF discard_pile = <<>> THEN TRUE
    ELSE \/ card.special \in {WILD, WILD_DRAW_FOUR}
         \/ card.color = current_color
         \/ card.number = top_card.number /\ card.number # -1
         \/ card.special # "" /\ card.special = top_card.special

(* C1: a pass is rejected while has_drawn is false and a draw while it is   *)
(* true, and a rejected pass or draw changes nothing of the game; a draw is  *)
(* accepted only with has_drawn false and sets it, and has_drawn is reset    *)
(* only by an accepted play or pass, so at most one voluntary draw succeeds  *)
(* in a turn.                                                                *)
C1_DrawPassGate ==
    [][ /\ (action' = "pass" /\ ~has_drawn) =>
              (~valid_action' /\ UNCHANGED game)
        /\ (action' = "draw" /\ has_drawn) =>
              (~valid_action' /\ UNCHANGED game)
        /\ (action' = "draw" /\ valid_action') =>
              (~has_drawn /\ has_drawn' /\ Len(the_deck') = Len(the_deck) - 1)
        /\ (has_drawn /\ ~has_drawn') =>
              (valid_action' /\ action' \in {"play", "pass"})
      ]_vars

\* a second draw of the same turn was refused
C1_Witness ==
    /\ action = "draw" /\ ~valid_action /\ has_drawn /\ ~game_over
    /\ output = <<DrawOnceLine>>

(* C2: an unrecognized verb, a play with no card name, a play of a name not  *)
(* in the hand and a play of a card that is not legal leave the game as it   *)
(* was (same player, game not over); a play is accepted only for a card of   *)
(* the current hand that is legal.                                           *)
C2_InvalidInputNoOp ==
    [][ /\ action' \notin {"play", "draw", "pass"} =>
              (~valid_action' /\ UNCHANGED game)
        /\ (action' = "play" /\ ~valid_action' /\ prompt' = "action") =>
              (UNCHANGED game /\ prompt = "action")
        /\ CardPlayed =>
              \E i \in 1..Len(hand) :
                  /\ LegalNow(hand[i])
                  /\ played.number = hand[i].number
                  /\ played.special = hand[i].special
                  /\ player_hands'[current_player + 1] = Remove(hand, i)
      ]_vars

\* a card of the hand that does not match the discard pile was refused
C2_Witness ==
    /\ action = "play" /\ ~valid_action /\ ~game_over
    /\ discard_pile # <<>>
    /\ output = <<NoMatchLine>>

(* C3: when a DrawTwo or WildDrawFour is played without emptying the hand    *)
(* and the draw pile holds fewer cards than the forced draw needs, the       *)
(* following player receives every card left in the pile and the game ends   *)
(* as a tie: no win is announced and the current player does not change.     *)
C3_ShortForcedDrawTies ==
    [][ ( /\ PlayAccepted
          /\ LeftInHand > 0
          /\ played.special \in {DRAW_TWO, WILD_DRAW_FOUR}
          /\ Len(the_deck) < ForcedCount(played.special) ) =>
        ( /\ the_deck' = <<>>
          /\ player_hands'[following + 1] =
                player_hands[following + 1] \o the_deck
          /\ game_over'
          /\ current_player' = current_player
          /\ output'[Len(output')] = TieLine
          /\ \A p \in 0..(Len(player_hands) - 1) :
                WinLine(p) \notin Range(output') )
      ]_vars

(* a DrawTwo can be played with one card left in the draw pile, and the      *)
(* game ends with it                                                         *)
C3_Witness ==
    /\ ~game_over
    /\ Len(the_deck) = 1
    /\ Len(hand) > 1
    /\ ENABLED ( /\ Play
                 /\ played.special = DRAW_TWO
                 /\ game_over'
                 /\ Len(player_hands'[following + 1]) =
                       Len(player_hands[following + 1]) + 1 )

(* C4: when an accepted play of a special card empties the hand, the game    *)
(* ends as a win of the current player and the card's effect is not          *)
(* applied: the draw pile and the other hands are unchanged and no tie is    *)
(* announced.                                                                *)
C4_SpecialWin ==
    [][ ( /\ PlayAccepted
          /\ LeftInHand = 0
          /\ played.special # "" ) =>
        ( /\ game_over'
          /\ output'[Len(output')] = WinLine(current_player)
          /\ TieLine \notin Range(output')
          /\ the_deck' = the_deck
          /\ player_hands'[current_player + 1] = <<>>
          /\ \A p \in 1..Len(player_hands) :
                p # current_player + 1 => player_hands'[p] = player_hands[p]
          /\ current_player' = current_player )
      ]_vars

\* a player won with a DrawTwo as the last card, the draw pile being empty
C4_Witness ==
    /\ game_over /\ action = "play" /\ valid_action
    /\ hand = <<>>
    /\ the_deck = <<>>
    /\ top_card.special = DRAW_TWO
    /\ output[Len(output)] = WinLine(current_player)

(* C6: while the discard pile is empty, a play of any card of the current    *)
(* hand is accepted whatever the card: it becomes the discard pile and sets  *)
(* the current color, its own color at once or, for a wild card, the color   *)
(* entered at the color prompt that follows.                                 *)
C6_FirstPlayFree ==
    /\ (prompt = "action" /\ discard_pile = <<>> /\ ~game_over) =>
          \A i \in 1..Len(hand) :
              IF hand[i].special \in {WILD, WILD_DRAW_FOUR}
              THEN ENABLED ( /\ PlayCard(<<"play", card_to_string(hand[i])>>)
                             /\ prompt' = "color"
                             /\ discard_pile' = <<hand[i]>>
                             /\ Len(player_hands'[current_player + 1]) =
                                   Len(hand) - 1 )
              ELSE ENABLED ( /\ PlayCard(<<"play", card_to_string(hand[i])>>)
                             /\ valid_action'
                             /\ discard_pile' = <<hand[i]>>
                             /\ current_color' = hand[i].color
                             /\ Len(player_hands'[current_player + 1]) =
                                   Len(hand) - 1 )
    /\ (prompt = "color" /\ Len(discard_pile) = 1) =>
          \A c \in Range(COLORS) :
              ENABLED ( /\ select_valid_color(c)
                        /\ valid_action'
                        /\ discard_pile' = <<[top_card EXCEPT !.color = c]>>
                        /\ current_color' = c )

(* the first play of the game was a wild card, played by player 1 after     *)
(* player 0 drew and passed, and the color entered became the current color  *)
C6_Witness ==
    /\ Len(discard_pile) = 1
    /\ action = "play" /\ valid_action /\ prompt = "action"
    /\ discard_pile[1].special \in {WILD, WILD_DRAW_FOUR}
    /\ current_color \in Range(COLORS)
    /\ current_color = discard_pile[1].color
    /\ Len(the_deck) < DeckAfterDeal
    /\ Len(player_hands[1]) > NUM_STARTING_CARDS
    /\ Len(player_hands[2]) = NUM_STARTING_CARDS - 1

\* the cards in the draw pile, the hands and the discard pile
TotalCards ==
    Len(the_deck) + Len(player_hands[1]) + Len(player_hands[2])
        + Len(discard_pile)

(* C7 as stated: create_deck returns exactly 108 cards, and the game holds   *)
(* 108 cards.                                                                *)
C7_Deck108 == Len(create_deck) = 108 /\ TotalCards = 108

(* C7 as amended: create_deck returns exactly 104 cards: 80 numbered, two    *)
(* of each digit 0-9 per color; 16 colored specials, two Skip and two        *)
(* DrawTwo per color; 8 wild, four Wild and four WildDrawFour; and the game  *)
(* holds 104 cards in every state.                                           *)
C7_Deck104 ==
    LET copies(card) ==
            Cardinality({i \in 1..Len(create_deck) : create_deck[i] = card})
    IN  /\ Len(create_deck) = 104
        /\ Len(NumberedCards) = 80
        /\ Len(ColoredSpecialCards) = 16
        /\ Len(WildCards) = 8
        /\ \A c \in Range(COLORS) :
              /\ \A n \in 0..9 : copies(Card(c, n, "")) = 2
              /\ copies(Card(c, -1, SKIP)) = 2
              /\ copies(Card(c, -1, DRAW_TWO)) = 2
        /\ copies(Card("", -1, WILD)) = 4
        /\ copies(Card("", -1, WILD_DRAW_FOUR)) = 4
        /\ TotalCards = 104

\* the dealt game before any input: 90 cards in the pile, 7 in each hand
C7_Witness ==
    /\ action = "" /\ discard_pile = <<>>
    /\ Len(the_deck) = 90
    /\ Len(player_hands[1]) = 7 /\ Len(player_hands[2]) = 7

(* C10 as stated: whenever the forced draw of a DrawTwo or WildDrawFour      *)
(* leaves the draw pile empty, the game ends; it never goes on to the next   *)
(* turn with an empty pile right after a forced draw.                        *)
C10_EmptiedPileTies ==
    [][ ( /\ PlayAccepted
          /\ played.special \in {DRAW_TWO, WILD_DRAW_FOUR}
          /\ Len(the_deck') < Len(the_deck)
          /\ the_deck' = <<>> ) => game_over'
      ]_vars

(* C10 as amended: after a DrawTwo or WildDrawFour that does not empty the   *)
(* hand, the game ends in a tie exactly when the draw pile holds fewer cards *)
(* than the forced draw needs; with at least that many the draw is made in   *)
(* full and the game goes on with player (current + 2) mod N, also when the  *)
(* draw took the last cards of the pile.                                     *)
C10_TieIffPileShort ==
    [][ ( /\ PlayAccepted
          /\ LeftInHand > 0
          /\ played.special \in {DRAW_TWO, WILD_DRAW_FOUR} ) =>
        IF Len(the_deck) < ForcedCount(played.special)
        THEN /\ game_over'
             /\ output'[Len(output')] = TieLine
             /\ the_deck' = <<>>
        ELSE /\ ~game_over'
             /\ the_deck' = SubSeq(the_deck, ForcedCount(played.special) + 1,
                                   Len(the_deck))
             /\ current_player' = (current_player + 2) % Len(player_hands)
      ]_vars

\* the game goes on after a DrawTwo whose forced draw emptied the draw pile
C10_Witness ==
    /\ ~game_over
    /\ the_deck = <<>>
    /\ action = "play" /\ valid_action
    /\ top_card.special = DRAW_TWO

\* ------------------------------------------------------------ helpers on their own

\* every card the program can hold: those of the deck, and the wild cards
\* with the color given to them when played
AllCards ==
    Range(create_deck)
    \cup {Card(c, -1, w) : c \in Range(COLORS), w \in Range(WILD_SPECIALS)}

\* an empty table, for the specifications that apply one helper
NoGame ==
    /\ the_deck = <<>>
    /\ player_hands = <<<<>>, <<>>>>
    /\ discard_pile = <<>>
    /\ current_color = ""
    /\ current_player = 0
    /\ has_drawn = FALSE
    /\ game_over = FALSE
    /\ action = ""
    /\ valid_action = FALSE
    /\ output = <<>>
    /\ prompt = "action"
    /\ color_choice = ""

InitValid ==
    /\ NoGame
    /\ probe \in {[fn |-> "is_valid_play", card |-> c, top_card |-> t,
                   current_color |-> k, done |-> FALSE, result |-> FALSE] :
                     c \in AllCards, t \in AllCards,
                     k \in Range(COLORS) \cup {""}}

ApplyValid ==
    /\ probe.fn = "is_valid_play"
    /\ ~probe.done
    /\ probe' = [probe EXCEPT
                   !.done = TRUE,
                   !.result = is_valid_play(probe.card, probe.top_card,
                                            probe.current_color)]
    /\ UNCHANGED <<game, action, valid_action, output, waiting>>

SpecValid == InitValid /\ [][ApplyValid]_vars

(* C5: is_valid_play returns true exactly when the card is a Wild or a       *)
(* WildDrawFour, or its color is the current color, or its number is the     *)
(* top card's number and not -1, or its special is non-empty and is the top  *)
(* card's special.                                                           *)
C5_ValidatorRule ==
    (probe.fn = "is_valid_play" /\ probe.done) =>
        (probe.result <=>
            \/ probe.card.special \in {WILD, WILD_DRAW_FOUR}
            \/ probe.card.color = probe.current_color
            \/ /\ probe.card.number = probe.top_card.number
               /\ probe.card.number # -1
            \/ /\ probe.card.special # ""
               /\ probe.card.special = probe.top_card.special)

\* a number card accepted for its digit alone
C5_Witness ==
    /\ probe.fn = "is_valid_play" /\ probe.done /\ probe.result
    /\ probe.card.special = ""
    /\ probe.card.color # probe.current_color
    /\ probe.card.number = probe.top_card.number

\* the hands of at most MaxProbeHand cards with numbers up to MaxProbeNumber
MaxProbeHand == 2

MaxProbeNumber == 1

ProbeCards == {c \in Range(create_deck) : c.number <= MaxProbeNumber}

ProbeHands == UNION {[1..n -> ProbeCards] : n \in 0..MaxProbeHand}

ProbeNames == {card_to_string(c) : c \in ProbeCards} \cup OtherNames

InitFind ==
    /\ NoGame
    /\ probe \in {[fn |-> "find_card_in_hand", hand |-> h, card_name |-> n,
                   done |-> FALSE, result |-> NONE] :
                     h \in ProbeHands, n \in ProbeNames}

ApplyFind ==
    /\ probe.fn = "find_card_in_hand"
    /\ ~probe.done
    /\ probe' = [probe EXCEPT
                   !.done = TRUE,
                   !.result = find_card_in_hand(probe.hand, probe.card_name)]
    /\ UNCHANGED <<game, action, valid_action, output, waiting>>

SpecFind == InitFind /\ [][ApplyFind]_vars

(* C9: for a name that renders a card of the hand, find_card_in_hand returns *)
(* the lowest index whose card renders to it, and every card of the hand     *)
(* that renders to it has the same color, number and special as the card     *)
(* found; for a name that renders no card of the hand it returns None.       *)
C9_FindRoundTrip ==
    (probe.fn = "find_card_in_hand" /\ probe.done) =>
        LET h == probe.hand
            n == probe.card_name
            r == probe.result
            named == {i \in 1..Len(h) : card_to_string(h[i]) = n}
        IN  IF named = {}
            THEN r = NONE
            ELSE /\ r + 1 \in named
                 /\ \A i \in named : r + 1 <= i /\ h[i] = h[r + 1]

\* the second of two cards of one name resolves to the first
C9_Witness ==
    /\ probe.fn = "find_card_in_hand" /\ probe.done
    /\ Len(probe.hand) = 2
    /\ card_to_string(probe.hand[2]) = probe.card_name
    /\ probe.hand[1] = probe.hand[2]
    /\ probe.result = 0

\* ------------------------------------------------------------ turn transitions

(* C11: after an accepted play that neither wins nor ties, the current       *)
(* player is (current+2) mod N for Skip, DrawTwo and WildDrawFour and        *)
(* (current+1) mod N for Wild and numbered cards; player (current+1) mod N   *)
(* has received exactly the first 0, 2, 4, 0, 0 cards of the deck; has_drawn *)
(* is false.  With two players the first three give the turn back.           *)
C11_NextPlayerAfterPlay ==
    [][ (PlayAccepted /\ ~game_over') =>
          LET k == ForcedCount(played.special)
              jump == IF played.special \in {SKIP, DRAW_TWO, WILD_DRAW_FOUR}
                      THEN 2 ELSE 1
          IN  /\ current_player' = (current_player + jump) % Len(player_hands)
              /\ (jump = 2 /\ Len(player_hands) = 2) =>
                     current_player' = current_player
              /\ k <= Len(the_deck)
              /\ the_deck' = SubSeq(the_deck, k + 1, Len(the_deck))
              /\ player_hands'[following + 1] =
                     player_hands[following + 1] \o SubSeq(the_deck, 1, k)
              /\ Len(player_hands'[current_player + 1]) = LeftInHand
              /\ ~has_drawn'
      ]_vars

\* the game goes on after a WildDrawFour whose four cards were drawn
C11_Witness ==
    /\ ~game_over
    /\ action = "play" /\ valid_action
    /\ top_card.special = WILD_DRAW_FOUR
    /\ ~has_drawn
    /\ Len(player_hands[((current_player + 1) % Len(player_hands)) + 1]) >= 4

(* C12: an accepted voluntary draw (has_drawn false, deck non-empty) moves   *)
(* exactly the front card of the deck to the end of the current player's     *)
(* hand and sets has_drawn; the current player, the other hands, the discard *)
(* pile, the current color and game_over are unchanged.                      *)
C12_DrawFrame ==
    [][ (action' = "draw" /\ ~has_drawn /\ the_deck # <<>>) =>
          /\ valid_action'
          /\ the_deck' = Tail(the_deck)
          /\ player_hands' =
                [player_hands EXCEPT
                    ![current_player + 1] = Append(hand, Head(the_deck))]
          /\ has_drawn'
          /\ UNCHANGED <<current_player, discard_pile, current_color,
                         game_over>>
      ]_vars

\* a card was drawn while cards lie on the discard pile
C12_Witness ==
    /\ action = "draw" /\ valid_action
    /\ has_drawn /\ ~game_over
    /\ discard_pile # <<>>
    /\ Len(hand) >= 2

(* C13: a draw issued with has_drawn false and the deck empty ends the game  *)
(* at once as a tie, with no change to any hand, the discard pile, the       *)
(* current color or the current player.                                      *)
C13_DrawOnEmptyTies ==
    [][ (action' = "draw" /\ ~has_drawn /\ the_deck = <<>>) =>
          /\ game_over'
          /\ output' = <<TieLine>>
          /\ UNCHANGED <<the_deck, player_hands, discard_pile, current_color,
                         current_player, has_drawn>>
      ]_vars

\* the game ended on a draw from the empty draw pile
C13_Witness ==
    /\ game_over
    /\ action = "draw" /\ ~valid_action
    /\ the_deck = <<>>
    /\ output = <<TieLine>>

(* C14: an accepted pass (has_drawn true) makes (current+1) mod N the        *)
(* current player and resets has_drawn; the deck, every hand, the discard    *)
(* pile, the current color and game_over are unchanged.                      *)
C14_PassFrame ==
    [][ (action' = "pass" /\ has_drawn) =>
          /\ valid_action'
          /\ current_player' = (current_player + 1) % Len(player_hands)
          /\ ~has_drawn'
          /\ UNCHANGED <<the_deck, player_hands, discard_pile, current_color,
                         game_over>>
      ]_vars

\* the turn was passed
C14_Witness ==
    /\ action = "pass" /\ valid_action
    /\ ~has_drawn /\ ~game_over

\* ------------------------------------------------------------ what is printed

\* the line that shows the top card after the step
TopLineAfter == TopCardLine \o card_to_string(played)

\* the line that shows the hand of the player who is current after the step
HandLineAfter == display_hand(player_hands'[current_player' + 1])

(* C15 as stated: after every accepted play, draw or pass the lines printed  *)
(* hold the top card of the discard pile, if it is not empty, and the hand   *)
(* of the player who is current after the action.                            *)
C15_TopAndHandAlways ==
    [][ (valid_action' /\ action' \in {"play", "draw", "pass"}) =>
          /\ discard_pile' # <<>> => TopLineAfter \in Range(output')
          /\ HandLineAfter \in Range(output')
      ]_vars

(* C15 as amended: an accepted play prints the new top card and then the     *)
(* hand of the player who is current next, or the win or tie line in place   *)
(* of a hand when the play ends the game; an accepted pass prints the top    *)
(* card, if the discard pile is not empty, and the next player's hand; an    *)
(* accepted draw prints the current player's hand only, never the top card.  *)
C15_PrintedAfterAction ==
    [][ valid_action' =>
          CASE action' = "play" ->
                 /\ Len(output') = 2
                 /\ output'[1] = TopLineAfter
                 /\ IF game_over'
                    THEN output'[2] \in {WinLine(current_player), TieLine}
                    ELSE output'[2] = HandLineAfter
            [] action' = "pass" ->
                 output' = (IF discard_pile' # <<>> THEN <<TopLineAfter>>
                            ELSE <<>>) \o <<HandLineAfter>>
            [] action' = "draw" ->
                 output' = <<HandLineAfter>>
      ]_vars

\* a card was drawn onto a non-empty discard pile and only the hand was shown
C15_Witness ==
    /\ action = "draw" /\ valid_action
    /\ discard_pile # <<>>
    /\ output = <<display_hand(hand)>>
    /\ TopCardLine \o card_to_string(top_card) \notin Range(output)

\* ------------------------------------------------------------ cards and colors

\* the cards of the draw pile and of the hands
CardsHeld ==
    Range(the_deck)
    \cup UNION {Range(player_hands[p]) : p \in 1..Len(player_hands)}

WellFormed(card) ==
    \/ card.number \in 0..9 /\ card.special = ""
    \/ card.special # "" /\ card.number = -1

(* C16 as stated: in every state every card of the deck, the hands and the  *)
(* discard pile is either a number 0..9 with no special or a special with    *)
(* number -1; every Skip and DrawTwo has a color of the palette; every Wild  *)
(* and WildDrawFour has no color in the deck and in the hands and a color of *)
(* the palette in the discard pile.                                          *)
C16_CardsWellFormed ==
    /\ \A card \in CardsHeld \cup Range(discard_pile) :
          /\ WellFormed(card)
          /\ card.special \in {SKIP, DRAW_TWO} => card.color \in Range(COLORS)
    /\ \A card \in CardsHeld :
          card.special \in {WILD, WILD_DRAW_FOUR} => card.color = ""
    /\ \A card \in Range(discard_pile) :
          card.special \in {WILD, WILD_DRAW_FOUR} =>
              card.color \in Range(COLORS)

(* C16 as amended: the same, except that while the program waits at the      *)
(* color prompt the wild card just played lies on top of the discard pile    *)
(* without a color; every wild card below it, and every wild card of the     *)
(* discard pile while the program waits for an action, has a color of the    *)
(* palette.                                                                  *)
C16_WellFormedButAtColorPrompt ==
    /\ \A card \in CardsHeld \cup Range(discard_pile) :
          /\ WellFormed(card)
          /\ card.special \in {SKIP, DRAW_TWO} => card.color \in Range(COLORS)
    /\ \A card \in CardsHeld :
          card.special \in {WILD, WILD_DRAW_FOUR} => card.color = ""
    /\ \A i \in 1..Len(discard_pile) :
          discard_pile[i].special \in {WILD, WILD_DRAW_FOUR} =>
              IF prompt = "color" /\ i = Len(discard_pile)
              THEN discard_pile[i].color = ""
              ELSE discard_pile[i].color \in Range(COLORS)
    /\ prompt = "color" => /\ discard_pile # <<>>
                           /\ top_card.special \in {WILD, WILD_DRAW_FOUR}

\* a wild card waits for its color on top of a wild card that has one
C16_Witness ==
    /\ prompt = "color"
    /\ top_card.color = ""
    /\ \E i \in 1..(Len(discard_pile) - 1) :
          /\ discard_pile[i].special \in {WILD, WILD_DRAW_FOUR}
          /\ discard_pile[i].color \in Range(COLORS)
    /\ \E card \in CardsHeld :
          card.special \in {WILD, WILD_DRAW_FOUR} /\ card.color = ""

(* C17 as stated: in every state the current color is empty exactly when    *)
(* the discard pile is empty; when the discard pile is not empty the current *)
(* color is one of the four colors and is the color stored on the top card,  *)
(* for a wild card the color chosen when it was played.                      *)
C17_ColorIsTopColor ==
    /\ current_color = "" <=> discard_pile = <<>>
    /\ discard_pile # <<>> =>
          /\ current_color \in Range(COLORS)
          /\ current_color = top_card.color

(* C17 as amended: that holds whenever the program waits for an action.      *)
(* While it waits at the color prompt the top card is the wild card just     *)
(* played, without a color, and the current color is still the one from      *)
(* before the play: empty on the first play of the game, else the color of   *)
(* the card below.                                                           *)
C17_ColorIsTopColorAtTurn ==
    IF prompt = "action"
    THEN /\ current_color = "" <=> discard_pile = <<>>
         /\ discard_pile # <<>> =>
               /\ current_color \in Range(COLORS)
               /\ current_color = top_card.color
    ELSE /\ discard_pile # <<>>
         /\ top_card.color = ""
         /\ IF Len(discard_pile) = 1 THEN current_color = ""
            ELSE /\ current_color \in Range(COLORS)
                 /\ current_color = discard_pile[Len(discard_pile) - 1].color

\* a wild card played onto other cards waits for its color
C17_Witness ==
    /\ prompt = "color"
    /\ Len(discard_pile) >= 2
    /\ top_card.special \in {WILD, WILD_DRAW_FOUR}
    /\ top_card.color = ""
    /\ current_color \in Range(COLORS)

\* ------------------------------------------------------------ conservation

\* a card as create_deck made it: a wild card without the color given at play
AsDealt(card) ==
    IF card.special \in {WILD, WILD_DRAW_FOUR} THEN [card EXCEPT !.color = ""]
    ELSE card

RECURSIVE Flatten(_, _)
Flatten(seqs, i) ==
    IF i > Len(seqs) THEN <<>> ELSE seqs[i] \o Flatten(seqs, i + 1)

\* every card of the game: the draw pile, the hands, the discard pile
CardsInGame ==
    the_deck \o Flatten(player_hands, 1)
        \o [i \in 1..Len(discard_pile) |-> AsDealt(discard_pile[i])]

Count(card, cards) == Cardinality({i \in 1..Len(cards) : cards[i] = card})

\* the game holds each card of create_deck as many times as create_deck does
Conserved ==
    LET cards == CardsInGame
        made == create_deck
    IN  /\ Len(cards) = Len(made)
        /\ \A card \in Range(made) \cup Range(cards) :
              Count(card, cards) = Count(card, made)

(* C18: in every state the deck, the hands and the discard pile together     *)
(* hold exactly the cards of create_deck, each as many times as create_deck  *)
(* made it (wild cards compared without the color given at play), so no      *)
(* card is created, duplicated, lost or held in two places; and the discard  *)
(* pile only grows at its top: no card ever leaves it.                       *)
C18_CardsConserved ==
    /\ []Conserved
    /\ [][ /\ Len(discard_pile') >= Len(discard_pile)
           /\ \A i \in 1..Len(discard_pile) :
                 /\ AsDealt(discard_pile'[i]) = AsDealt(discard_pile[i])
                 /\ i < Len(discard_pile) => discard_pile'[i] = discard_pile[i]
         ]_vars

\* cards in all three places, a forced draw made and a wild card played
C18_Witness ==
    /\ the_deck # <<>>
    /\ Len(discard_pile) >= 3
    /\ \E card \in Range(discard_pile) :
          card.special = WILD_DRAW_FOUR /\ card.color # ""
    /\ \A p \in 1..Len(player_hands) : player_hands[p] # <<>>
    /\ Len(the_deck) + Len(discard_pile) < DeckAfterDeal

\* ------------------------------------------------------------ the win

\* the players, counted from 0
Players == 0..(Len(player_hands) - 1)

(* C19 as stated: in every state of a running game every hand holds a card; *)
(* the win line is printed exactly by an accepted play that leaves the       *)
(* current player's hand empty, it names the current player and no other,    *)
(* and it ends the game.                                                     *)
C19_WinIffHandEmptied ==
    /\ [](~game_over => \A p \in Players : player_hands[p + 1] # <<>>)
    /\ [][ /\ (\E p \in Players : WinLine(p) \in Range(output')) <=>
                (PlayAccepted /\ player_hands'[current_player + 1] = <<>>)
           /\ \A p \in Players :
                 WinLine(p) \in Range(output') =>
                    /\ p = current_player
                    /\ current_player' = current_player
                    /\ game_over'
         ]_vars

(* C19 as amended: every hand holds a card while the game runs and the       *)
(* program waits for an action; at the color prompt the current player's     *)
(* hand may be empty (the wild card played was the last card) and the other  *)
(* hands hold a card.  The win line is printed exactly by the step that      *)
(* completes a play leaving the current player's hand empty; it names the    *)
(* current player and no other, and it ends the game.                        *)
C19_WinIffHandEmptiedAtTurn ==
    /\ [](~game_over =>
            \A p \in Players :
                (prompt = "action" \/ p # current_player) =>
                    player_hands[p + 1] # <<>>)
    /\ [][ /\ (\E p \in Players : WinLine(p) \in Range(output')) <=>
                (PlayAccepted /\ player_hands'[current_player + 1] = <<>>)
           /\ \A p \in Players :
                 WinLine(p) \in Range(output') =>
                    /\ p = current_player
                    /\ current_player' = current_player
                    /\ game_over'
         ]_vars

\* the last card played is a wild card that waits for its color
C19_Witness ==
    /\ ~game_over
    /\ prompt = "color"
    /\ hand = <<>>
    /\ ENABLED (select_valid_color(COLORS[1]) /\ game_over'
                /\ output'[Len(output')] = WinLine(current_player))

\* ------------------------------------------------------------ termination

\* an input that is not rejected: an accepted play, draw or pass, the draw
\* from the empty pile that ends the game, or a color at the color prompt
Accepted == Play \/ Color \/ Draw \/ DrawTie \/ Pass

\* the players keep typing until an input is not rejected
SpecFair == Spec /\ WF_vars(Accepted)

\* a draw or a pass is taken in the state
DrawOrPassTaken ==
    IF has_drawn
    THEN ENABLED PassTurn(<<"pass">>)
    ELSE ENABLED (DrawCard(<<"draw">>) \/ DrawEmpty(<<"draw">>))

\* what accepted inputs use up: cards to draw, cards to play, the pass, the
\* color asked for
Rank ==
    4 * Len(the_deck) + 2 * Len(Flatten(player_hands, 1))
        + (IF has_drawn THEN 1 ELSE 0)
        + (IF prompt = "color" THEN 1 ELSE 0)

\* the step took an input that was not rejected
InputTaken == valid_action' \/ (prompt = "action" /\ prompt' = "color")

(* C20 as stated: in every state of a running game a draw (has_drawn false)  *)
(* or a pass (has_drawn true) is accepted or ends the game; every accepted   *)
(* input lowers a rank that is never negative; and the game reaches          *)
(* game-over.                                                                *)
C20_GameEnds ==
    /\ [](~game_over => DrawOrPassTaken)
    /\ [][InputTaken => (Rank' < Rank /\ Rank' >= 0)]_vars
    /\ <>game_over

(* C20 as amended: in every state of a running game in which the program     *)
(* waits for an action a draw (has_drawn false) or a pass (has_drawn true)   *)
(* is accepted or ends the game, and at the color prompt, where no action is *)
(* read, each of the four colors is accepted; every accepted input lowers a  *)
(* rank that is never negative, so only finitely many are accepted; and if   *)
(* the players keep giving inputs until one is not rejected, at the action   *)
(* prompt and at the color prompt, the game reaches game-over.               *)
C20_GameEndsPastPrompts ==
    /\ [](~game_over =>
            IF prompt = "action" THEN DrawOrPassTaken
            ELSE /\ ~ENABLED (DrawCard(<<"draw">>) \/ DrawEmpty(<<"draw">>)
                              \/ PassTurn(<<"pass">>))
                 /\ \A c \in Range(COLORS) :
                       ENABLED (select_valid_color(c) /\ valid_action'))
    /\ [][InputTaken => (Rank' < Rank /\ Rank' >= 0)]_vars
    /\ <>game_over

\* the game ended in a tie on a WildDrawFour the draw pile could not serve
C20_Witness ==
    /\ game_over
    /\ action = "play" /\ valid_action
    /\ output[Len(output)] = TieLine
    /\ top_card.special = WILD_DRAW_FOUR
    /\ Rank > 0

====
